---- MODULE Spec2Model ----
(***************************************************************************)
(* Train_profile.py: the training driver of the sequence-to-signal model. *)
(* A run parses its command line, merges the chromosomes of the genome    *)
(* and labels archives, remaps the exclusion indices, builds the training *)
(* and the validation WindowGenerator and hands both to model.fit.        *)
(*                                                                         *)
(* The driver (parsing, __main__) is translated from src/Train_profile.py. *)
(* Modules.utils.merge_chroms and Modules.tf_utils.WindowGenerator are    *)
(* not part of the sources at hand; they follow sections 4.1-4.6 of the   *)
(* specification.  Arrays are sequences read with 0-based indices (At).   *)
(* Sampling is modelled for balance = None.                                *)
(***************************************************************************)
EXTENDS Integers, Sequences, FiniteSets, TLC

VARIABLES
    fsys,                  \* the files on disk: genome, labels, exclusion archive
    runs,                  \* the runs of the program that are started
    args,                  \* args[r]: the parsed command line of run r
    pc,                    \* pc[r]: the driver's position
    err,                   \* err[r]: the error the run ended with ("" for none)
    x_train, x_valid,      \* merged one-hot sequence arrays
    y_train, y_valid,      \* merged label arrays
    remove_indices_train,  \* remapped exclusion indices ([given, idx])
    remove_indices_valid,
    generator_train,       \* the WindowGenerator objects
    generator_valid,
    epoch,                 \* model.fit: epochs completed
    step,                  \* model.fit: next batch index of the current phase
    hist_train,            \* every batch the training generator returned
    hist_valid             \* every batch the validation generator returned

vars == <<fsys, runs, args, pc, err, x_train, x_valid, y_train, y_valid,
          remove_indices_train, remove_indices_valid, generator_train,
          generator_valid, epoch, step, hist_train, hist_valid>>

(***************************************************************************)
(* Bounds of the model.                                                    *)
(***************************************************************************)
MaxLen == 4        \* longest chromosome array of an archive
MaxEpochs == 3     \* largest --epochs
MaxBatch == 3      \* largest --batch_size

Runs == {1, 2}

(***************************************************************************)
(* Values.                                                                 *)
(***************************************************************************)
NoSeed == -1       \* --seed default None
NoHeads == 0       \* --head_interval default None
DefaultClasses == 500  \* --n_classes default
ValidSeed == 0     \* seed=0 of generator_valid
Gap == -1          \* the separator element merge_chroms inserts
BaseN == 4         \* one-hot all-zero vector ("N"); bases A, C, G, T are 0..3
NoFile == [exists |-> FALSE, arrays |-> << >>]

Min(a, b) == IF a <= b THEN a ELSE b
Max(a, b) == IF a >= b THEN a ELSE b
CeilDiv(a, b) == (a + b - 1) \div b
At(a, j) == a[j + 1]
Range(s) == {s[i] : i \in 1..Len(s)}

RECURSIVE Concatenate(_)
Concatenate(ss) ==
    IF ss = << >> THEN << >> ELSE Head(ss) \o Concatenate(Tail(ss))

RECURSIVE SumLen(_)
SumLen(ss) == IF ss = << >> THEN 0 ELSE Len(Head(ss)) + SumLen(Tail(ss))

(***************************************************************************)
(* parsing(): lines 221-254.                                               *)
(***************************************************************************)
\* Path(args.genome).stem
Stem(path) ==
    CASE path = "W303.npz" -> "W303"
      [] path = "W303_Mmmyco.npz" -> "W303_Mmmyco"
      [] OTHER -> "genome"

\* int(c): the identifiers that parse as integers
IsInt(c) == c \in {"1", "2"}

\* "chr" + format(int(c), "02d")
FormatW303(c) ==
    CASE c = "1" -> "chr01"
      [] c = "2" -> "chr02"
      [] OTHER -> c

\* f"chr{c}" if c != "Mmmyco" else c
FormatMmmyco(c) ==
    CASE c = "Mmmyco" -> c
      [] c = "1" -> "chr1"
      [] c = "2" -> "chr2"
      [] OTHER -> c

RenameChroms(genome_name, chroms) ==
    CASE genome_name = "W303" -> [i \in 1..Len(chroms) |-> FormatW303(chroms[i])]
      [] genome_name = "W303_Mmmyco" ->
            [i \in 1..Len(chroms) |-> FormatMmmyco(chroms[i])]
      [] OTHER -> chroms

Keys(file) == DOMAIN file.arrays

\* Mutant of MissingInData: "or" for "and", a chromosome of one archive passes.
MissingInData_Either(g, s, chroms) ==
    {i \in 1..Len(chroms) : ~(chroms[i] \in Keys(g) \/ chroms[i] \in Keys(s))}

\* The identifiers the membership loop of lines 238-245 rejects.
MissingInData(g, s, chroms) ==
    {i \in 1..Len(chroms) : ~(chroms[i] \in Keys(g) /\ chroms[i] \in Keys(s))}

\* The identifiers the membership loop of lines 246-253 rejects.
MissingInRemove(r, chroms) ==
    {i \in 1..Len(chroms) : chroms[i] \notin Keys(r)}

\* The whole of parsing(): the error it ends with, "" when it returns args.
ParsingError(a, fs) ==
    LET genome_name == Stem(a.genome)
        raw == a.chrom_train \o a.chrom_valid
        chroms == RenameChroms(genome_name, raw)
    IN  IF ~fs.genome.exists THEN "genome does not exist"
        ELSE IF ~fs.labels.exists THEN "labels does not exist"
        ELSE IF genome_name = "W303" /\ \E i \in 1..Len(raw) : ~IsInt(raw[i])
            THEN "ValueError"
        ELSE IF MissingInData(fs.genome, fs.labels, chroms) # {}
            THEN "not a valid chromosome id in genome and labels"
        ELSE IF a.remove_indices /\ ~fs.remove.exists THEN "FileNotFoundError"
        ELSE IF a.remove_indices /\ MissingInRemove(fs.remove, chroms) # {}
            THEN "not a valid chromosome id in remove_indices"
        ELSE ""

ParsedArgs(a) ==
    [a EXCEPT !.chrom_train = RenameChroms(Stem(a.genome), a.chrom_train),
              !.chrom_valid = RenameChroms(Stem(a.genome), a.chrom_valid)]

(***************************************************************************)
(* utils.merge_chroms (specification 4.1): the arrays of the listed       *)
(* chromosomes, in the order listed, one separator element between two    *)
(* consecutive chromosomes.                                                *)
(***************************************************************************)
RECURSIVE JoinWithGap(_)
JoinWithGap(arrays) ==
    IF arrays = << >> THEN << >>
    ELSE IF Len(arrays) = 1 THEN Head(arrays)
    ELSE Head(arrays) \o <<Gap>> \o JoinWithGap(Tail(arrays))

merge_chroms(chr_ids, file) ==
    JoinWithGap([i \in 1..Len(chr_ids) |-> file.arrays[chr_ids[i]]])

\* merge_chroms fails when an identifier is absent from the archive.
MergeFails(chr_ids, file) ==
    ~file.exists \/ \E i \in 1..Len(chr_ids) : chr_ids[i] \notin Keys(file)

(***************************************************************************)
(* __main__, lines 311-326: the exclusion indices in merged coordinates.   *)
(***************************************************************************)
\* Mutant of ShiftIndices: the local indices are kept as they are.
ShiftIndices_Local(indices, total_len) ==
    [j \in 1..Len(indices) |-> indices[j]]

\* f[k] + total_len
ShiftIndices(indices, total_len) ==
    [j \in 1..Len(indices) |-> indices[j] + total_len]

\* Mutant of NextTotalLen: the separator slot is not counted.
NextTotalLen_NoGap(total_len, label_array) == total_len + Len(label_array)

\* total_len += len(s[k]) + 1
NextTotalLen(total_len, label_array) == total_len + Len(label_array) + 1

\* The loop of lines 316-318 (320-322) from chromosome i on.
RECURSIVE RemapFrom(_, _, _, _, _)
RemapFrom(f, s, chroms, i, total_len) ==
    IF i > Len(chroms) THEN << >>
    ELSE <<ShiftIndices(f.arrays[chroms[i]], total_len)>>
         \o RemapFrom(f, s, chroms, i + 1,
                      NextTotalLen(total_len, s.arrays[chroms[i]]))

\* f[k] of line 317 (321) fails for a chromosome the archive lacks.
RemapFails(chroms, f) ==
    ~f.exists \/ \E i \in 1..Len(chroms) : chroms[i] \notin Keys(f)

\* np.concatenate of the list the loop built
RemapIndices(f, s, chroms) == Concatenate(RemapFrom(f, s, chroms, 1, 0))

NoRemoveIndices == [given |-> FALSE, idx |-> << >>]

(***************************************************************************)
(* The random generator of a WindowGenerator (specification 4.4,          *)
(* "seeding"): a state that is a function of the seed alone, stepped by   *)
(* every draw.  A multiplicative generator modulo 7 stands for numpy's.   *)
(***************************************************************************)
Entropy == 1..6

SeedRng(seed) == (seed % 6) + 1

NextRng(s) == (3 * s) % 7

Swap(seq, i, j) == [seq EXCEPT ![i] = seq[j], ![j] = seq[i]]

\* Fisher-Yates from position i down: [seq, rng]
RECURSIVE ShuffleFrom(_, _, _)
ShuffleFrom(seq, i, s) ==
    IF i <= 1 THEN [seq |-> seq, rng |-> s]
    ELSE ShuffleFrom(Swap(seq, i, (s % i) + 1), i - 1, NextRng(s))

Shuffle(seq, s) == ShuffleFrom(seq, Len(seq), s)

RECURSIVE SortedSeq(_)
SortedSeq(S) ==
    IF S = {} THEN << >>
    ELSE LET m == CHOOSE x \in S : \A y \in S : x <= y
         IN  <<m>> \o SortedSeq(S \ {m})

(***************************************************************************)
(* EligibilityFilter (specification 4.2).                                  *)
(***************************************************************************)
Positions(data) == 0..(Len(data) - 1)

GapPositions(data) == {p \in Positions(data) : At(data, p) = Gap}

\* No valid window can be centered at p: it leaves the array or holds a gap.
NoWindowAt(data, p, half) ==
    \/ p - half < 0
    \/ p + half > Len(data) - 1
    \/ \E g \in GapPositions(data) : g >= p - half /\ g <= p + half

Excluded(data, labels, p, remove0s, removeNs, remove_indices) ==
    \/ remove0s /\ At(labels, p) = 0
    \/ removeNs /\ At(data, p) = BaseN
    \/ remove_indices.given /\ p \in Range(remove_indices.idx)

EligibleSet(data, labels, winsize, remove0s, removeNs, remove_indices) ==
    {p \in Positions(data) :
        /\ ~NoWindowAt(data, p, winsize \div 2)
        /\ ~Excluded(data, labels, p, remove0s, removeNs, remove_indices)}

(***************************************************************************)
(* WindowGenerator (specification 4.4-4.6).                                *)
(***************************************************************************)
NoGenerator ==
    [built |-> FALSE, winsize |-> 1, batch_size |-> 1, max_data |-> 1,
     same_samples |-> FALSE, balance |-> "None",
     n_classes |-> DefaultClasses, strand |-> "for",
     head_interval |-> NoHeads, seed |-> NoSeed,
     eligible |-> << >>, pool |-> << >>, used |-> {}, rng |-> 1]

\* Mismatched sequence and label arrays are a configuration error (section 7).
ConstructionFails(data, labels) == Len(data) # Len(labels)

\* The tracker emptied and the eligible positions reshuffled.
Reshuffled(gen) ==
    LET sh == Shuffle(gen.eligible, gen.rng)
    IN  [gen EXCEPT !.pool = sh.seq, !.used = {}, !.rng = sh.rng]

\* WindowGenerator(...): p holds the keyword arguments, e the entropy a
\* generator without a seed is started from.
NewGenerator(data, labels, p, remove_indices, e) ==
    LET el == SortedSeq(EligibleSet(data, labels, p.winsize, p.remove0s,
                                    p.removeNs, remove_indices))
        g0 == [built |-> TRUE, winsize |-> p.winsize,
               batch_size |-> p.batch_size, max_data |-> p.max_data,
               same_samples |-> p.same_samples, balance |-> p.balance,
               n_classes |-> p.n_classes, strand |-> p.strand,
               head_interval |-> p.head_interval, seed |-> p.seed,
               eligible |-> el, pool |-> << >>, used |-> {},
               rng |-> IF p.seed = NoSeed THEN e ELSE SeedRng(p.seed)]
    IN  IF p.same_samples THEN g0 ELSE Reshuffled(g0)

\* The positions one epoch uses.
EpochSize(gen) == Min(gen.max_data, Len(gen.eligible))

\* Mutant of BatchCount: counted from the positions not yet used.
BatchCount_Unused(gen) ==
    IF gen.same_samples THEN CeilDiv(EpochSize(gen), gen.batch_size)
    ELSE CeilDiv(Min(gen.max_data, Max(Len(gen.pool), 1)), gen.batch_size)

\* len(generator): the number of batches per epoch
BatchCount(gen) == CeilDiv(EpochSize(gen), gen.batch_size)

\* The size of batch i: batch_size, or what is left for the last batch.
BatchLen(gen, i) == Min(gen.batch_size, EpochSize(gen) - i * gen.batch_size)

\* One position: with replacement from the eligible positions, or the next
\* unused one, reshuffling first when none is left.
DrawPosition(gen) ==
    IF gen.same_samples
    THEN [gen |-> [gen EXCEPT !.rng = NextRng(gen.rng)],
          pos |-> gen.eligible[(gen.rng % Len(gen.eligible)) + 1]]
    ELSE LET g == IF gen.pool = << >> THEN Reshuffled(gen) ELSE gen
         IN  [gen |-> [g EXCEPT !.pool = Tail(g.pool),
                                !.used = g.used \cup {Head(g.pool)}],
              pos |-> Head(g.pool)]

\* The strand of one window.
DrawStrand(gen) ==
    IF gen.strand = "both"
    THEN [gen |-> [gen EXCEPT !.rng = NextRng(gen.rng)],
          strand |-> IF gen.rng % 2 = 0 THEN "for" ELSE "rev"]
    ELSE [gen |-> gen, strand |-> gen.strand]

\* k draws: [gen, pos, strand]
RECURSIVE DrawMany(_, _)
DrawMany(gen, k) ==
    IF k <= 0 THEN [gen |-> gen, pos |-> << >>, strand |-> << >>]
    ELSE LET d == DrawPosition(gen)
             s == DrawStrand(d.gen)
             rest == DrawMany(s.gen, k - 1)
         IN  [gen |-> rest.gen, pos |-> <<d.pos>> \o rest.pos,
              strand |-> <<s.strand>> \o rest.strand]

(***************************************************************************)
(* BatchAssembler (specification 4.5).                                     *)
(***************************************************************************)
Complement(b) == IF b \in 0..3 THEN 3 - b ELSE b

Reverse(seq) == [i \in 1..Len(seq) |-> seq[Len(seq) + 1 - i]]

WindowRange(pos, winsize) == (pos - winsize \div 2)..(pos + winsize \div 2)

Window(data, pos, winsize, strand) ==
    LET fwd == [i \in 1..winsize |-> At(data, pos - winsize \div 2 + i - 1)]
    IN  IF strand = "rev"
        THEN [i \in 1..winsize |-> Complement(Reverse(fwd)[i])]
        ELSE fwd

\* The label of the window center, or the heads head_interval apart.
HeadLabels(labels, pos, winsize, head_interval) ==
    IF head_interval = NoHeads THEN <<At(labels, pos)>>
    ELSE LET n == (winsize \div 2) \div head_interval
         IN  [i \in 1..(2 * n + 1) |->
                 At(labels, pos + (i - 1 - n) * head_interval)]

\* generator[i]: the generator after the fetch and the batch it returns
Fetch(gen, data, labels, i) ==
    LET d == DrawMany(gen, BatchLen(gen, i))
    IN  [gen |-> d.gen,
         batch |->
            [idx |-> i, pos |-> d.pos, strand |-> d.strand,
             X |-> [j \in 1..Len(d.pos) |->
                      Window(data, d.pos[j], gen.winsize, d.strand[j])],
             Y |-> [j \in 1..Len(d.pos) |->
                      HeadLabels(labels, d.pos[j], gen.winsize,
                                 gen.head_interval)]]]

\* Mutant of OnEpochEnd: the tracker is reset at every epoch boundary.
OnEpochEnd_AlwaysReset(gen) ==
    IF ~gen.same_samples /\ gen.eligible # << >>
    THEN Reshuffled(gen)
    ELSE gen

\* on_epoch_end: an exhausted tracker is reset and the positions reshuffled.
OnEpochEnd(gen) ==
    IF ~gen.same_samples /\ gen.pool = << >> /\ gen.eligible # << >>
    THEN Reshuffled(gen)
    ELSE gen

(***************************************************************************)
(* The driver: parsing() and __main__.                                     *)
(***************************************************************************)
\* model_dict, lines 284-287
model_dict == {"mnase_Etienne", "bassenji_Etienne"}

\* Mutant of TrainParams: same_samples=True, as for generator_valid.
TrainParams_SameSamples(a) ==
    [winsize |-> a.winsize, batch_size |-> a.batch_size,
     max_data |-> a.max_train, same_samples |-> TRUE,
     balance |-> a.balance, n_classes |-> a.n_classes, strand |-> a.strand,
     head_interval |-> a.head_interval, remove0s |-> a.remove0s,
     removeNs |-> a.removeNs, seed |-> a.seed]

\* Mutant of TrainParams: remove0s is not handed on.
TrainParams_Keep0s(a) ==
    [winsize |-> a.winsize, batch_size |-> a.batch_size,
     max_data |-> a.max_train, same_samples |-> a.same_samples,
     balance |-> a.balance, n_classes |-> a.n_classes, strand |-> a.strand,
     head_interval |-> a.head_interval, remove0s |-> FALSE,
     removeNs |-> a.removeNs, seed |-> a.seed]

\* The keyword arguments of generator_train, lines 328-343.
TrainParams(a) ==
    [winsize |-> a.winsize, batch_size |-> a.batch_size,
     max_data |-> a.max_train, same_samples |-> a.same_samples,
     balance |-> a.balance, n_classes |-> a.n_classes, strand |-> a.strand,
     head_interval |-> a.head_interval, remove0s |-> a.remove0s,
     removeNs |-> a.removeNs, seed |-> a.seed]

\* Mutant of ValidParams: the training seed and same_samples flag are used.
ValidParams_TrainSeed(a) ==
    [winsize |-> a.winsize, batch_size |-> a.batch_size,
     max_data |-> a.max_valid, same_samples |-> a.same_samples,
     balance |-> "None", n_classes |-> DefaultClasses, strand |-> a.strand,
     head_interval |-> a.head_interval, remove0s |-> a.remove0s,
     removeNs |-> a.removeNs, seed |-> a.seed]

\* The keyword arguments of generator_valid, lines 344-357; balance and
\* n_classes are left to their defaults.
ValidParams(a) ==
    [winsize |-> a.winsize, batch_size |-> a.batch_size,
     max_data |-> a.max_valid, same_samples |-> TRUE,
     balance |-> "None", n_classes |-> DefaultClasses, strand |-> a.strand,
     head_interval |-> a.head_interval, remove0s |-> a.remove0s,
     removeNs |-> a.removeNs, seed |-> ValidSeed]

\* Mutant of TrainSequence: the validation list is merged in its place.
TrainSequence_Valid(a, fs) == merge_chroms(a.chrom_valid, fs.genome)

\* x_train, line 307
TrainSequence(a, fs) == merge_chroms(a.chrom_train, fs.genome)

\* x_valid, line 308
ValidSequence(a, fs) == merge_chroms(a.chrom_valid, fs.genome)

\* y_train, line 309
TrainLabels(a, fs) == merge_chroms(a.chrom_train, fs.labels)

\* y_valid, line 310
ValidLabels(a, fs) == merge_chroms(a.chrom_valid, fs.labels)

\* The entropy a generator is started from: drawn only without a seed.
EntropyFor(p) == IF p.seed = NoSeed THEN Entropy ELSE {1}

Exit(r, message) ==
    /\ pc' = [pc EXCEPT ![r] = "exit"]
    /\ err' = [err EXCEPT ![r] = message]

\* args = parsing(), line 260
Parsing(r) ==
    /\ pc[r] = "start"
    /\ LET e == ParsingError(args[r], fsys)
       IN  IF e # ""
           THEN Exit(r, e) /\ UNCHANGED args
           ELSE /\ pc' = [pc EXCEPT ![r] = "parsed"]
                /\ args' = [args EXCEPT ![r] = ParsedArgs(args[r])]
                /\ UNCHANGED err
    /\ UNCHANGED <<fsys, runs, x_train, x_valid, y_train, y_valid,
                   remove_indices_train, remove_indices_valid,
                   generator_train, generator_valid, epoch, step,
                   hist_train, hist_valid>>

\* Lines 262-304: the output directory, the seed, the model.
BuildModel(r) ==
    /\ pc[r] = "parsed"
    /\ IF args[r].architecture \notin model_dict
       THEN Exit(r, "KeyError")
       ELSE pc' = [pc EXCEPT ![r] = "model"] /\ UNCHANGED err
    /\ UNCHANGED <<fsys, runs, args, x_train, x_valid, y_train, y_valid,
                   remove_indices_train, remove_indices_valid,
                   generator_train, generator_valid, epoch, step,
                   hist_train, hist_valid>>

\* Lines 307-310: the four merge_chroms calls.
LoadData(r) ==
    /\ pc[r] = "model"
    /\ LET a == args[r]
       IN  IF \/ MergeFails(a.chrom_train \o a.chrom_valid, fsys.genome)
              \/ MergeFails(a.chrom_train \o a.chrom_valid, fsys.labels)
           THEN /\ Exit(r, "KeyError")
                /\ UNCHANGED <<x_train, x_valid, y_train, y_valid>>
           ELSE /\ x_train' = [x_train EXCEPT ![r] = TrainSequence(a, fsys)]
                /\ x_valid' = [x_valid EXCEPT ![r] = ValidSequence(a, fsys)]
                /\ y_train' = [y_train EXCEPT ![r] = TrainLabels(a, fsys)]
                /\ y_valid' = [y_valid EXCEPT ![r] = ValidLabels(a, fsys)]
                /\ pc' = [pc EXCEPT ![r] = "merged"]
                /\ UNCHANGED err
    /\ UNCHANGED <<fsys, runs, args, remove_indices_train,
                   remove_indices_valid, generator_train, generator_valid,
                   epoch, step, hist_train, hist_valid>>

\* Lines 311-326: the exclusion indices of both chromosome lists.
RemapRemoveIndices(r) ==
    /\ pc[r] = "merged"
    /\ LET a == args[r]
       IN  IF ~a.remove_indices
           THEN /\ remove_indices_train' =
                       [remove_indices_train EXCEPT ![r] = NoRemoveIndices]
                /\ remove_indices_valid' =
                       [remove_indices_valid EXCEPT ![r] = NoRemoveIndices]
                /\ pc' = [pc EXCEPT ![r] = "remapped"]
                /\ UNCHANGED err
           ELSE IF RemapFails(a.chrom_train \o a.chrom_valid, fsys.remove)
           THEN /\ Exit(r, "KeyError")
                /\ UNCHANGED <<remove_indices_train, remove_indices_valid>>
           ELSE /\ remove_indices_train' =
                       [remove_indices_train EXCEPT ![r] =
                           [given |-> TRUE,
                            idx |-> RemapIndices(fsys.remove, fsys.labels,
                                                 a.chrom_train)]]
                /\ remove_indices_valid' =
                       [remove_indices_valid EXCEPT ![r] =
                           [given |-> TRUE,
                            idx |-> RemapIndices(fsys.remove, fsys.labels,
                                                 a.chrom_valid)]]
                /\ pc' = [pc EXCEPT ![r] = "remapped"]
                /\ UNCHANGED err
    /\ UNCHANGED <<fsys, runs, args, x_train, x_valid, y_train, y_valid,
                   generator_train, generator_valid, epoch, step,
                   hist_train, hist_valid>>

\* Lines 328-343: generator_train.
BuildTrain(r) ==
    /\ pc[r] = "remapped"
    /\ IF ConstructionFails(x_train[r], y_train[r])
       THEN Exit(r, "configuration error") /\ UNCHANGED generator_train
       ELSE /\ \E e \in EntropyFor(TrainParams(args[r])) :
                  generator_train' = [generator_train EXCEPT ![r] =
                      NewGenerator(x_train[r], y_train[r],
                                   TrainParams(args[r]),
                                   remove_indices_train[r], e)]
            /\ pc' = [pc EXCEPT ![r] = "train_built"]
            /\ UNCHANGED err
    /\ UNCHANGED <<fsys, runs, args, x_train, x_valid, y_train, y_valid,
                   remove_indices_train, remove_indices_valid,
                   generator_valid, epoch, step, hist_train, hist_valid>>

\* Lines 344-357: generator_valid.
BuildValid(r) ==
    /\ pc[r] = "train_built"
    /\ IF ConstructionFails(x_valid[r], y_valid[r])
       THEN Exit(r, "configuration error") /\ UNCHANGED generator_valid
       ELSE /\ \E e \in EntropyFor(ValidParams(args[r])) :
                  generator_valid' = [generator_valid EXCEPT ![r] =
                      NewGenerator(x_valid[r], y_valid[r],
                                   ValidParams(args[r]),
                                   remove_indices_valid[r], e)]
            /\ pc' = [pc EXCEPT ![r] = "fit_train"]
            /\ UNCHANGED err
    /\ UNCHANGED <<fsys, runs, args, x_train, x_valid, y_train, y_valid,
                   remove_indices_train, remove_indices_valid,
                   generator_train, epoch, step, hist_train, hist_valid>>

(***************************************************************************)
(* model.fit(generator_train, validation_data=generator_valid,            *)
(* epochs=args.epochs, shuffle=False), lines 385-392: every epoch fetches *)
(* the training batches 0..len-1 in order, then the validation batches,   *)
(* then ends the epoch of both generators.                                 *)
(***************************************************************************)
FetchTrain(r) ==
    /\ pc[r] = "fit_train"
    /\ step[r] < BatchCount(generator_train[r])
    /\ LET f == Fetch(generator_train[r], x_train[r], y_train[r], step[r])
       IN  /\ generator_train' = [generator_train EXCEPT ![r] = f.gen]
           /\ hist_train' = [hist_train EXCEPT ![r] = Append(@, f.batch)]
    /\ step' = [step EXCEPT ![r] = @ + 1]
    /\ UNCHANGED <<fsys, runs, args, pc, err, x_train, x_valid, y_train,
                   y_valid, remove_indices_train, remove_indices_valid,
                   generator_valid, epoch, hist_valid>>

StartValidation(r) ==
    /\ pc[r] = "fit_train"
    /\ step[r] >= BatchCount(generator_train[r])
    /\ pc' = [pc EXCEPT ![r] = "fit_valid"]
    /\ step' = [step EXCEPT ![r] = 0]
    /\ UNCHANGED <<fsys, runs, args, err, x_train, x_valid, y_train, y_valid,
                   remove_indices_train, remove_indices_valid,
                   generator_train, generator_valid, epoch, hist_train,
                   hist_valid>>

FetchValid(r) ==
    /\ pc[r] = "fit_valid"
    /\ step[r] < BatchCount(generator_valid[r])
    /\ LET f == Fetch(generator_valid[r], x_valid[r], y_valid[r], step[r])
       IN  /\ generator_valid' = [generator_valid EXCEPT ![r] = f.gen]
           /\ hist_valid' = [hist_valid EXCEPT ![r] = Append(@, f.batch)]
    /\ step' = [step EXCEPT ![r] = @ + 1]
    /\ UNCHANGED <<fsys, runs, args, pc, err, x_train, x_valid, y_train,
                   y_valid, remove_indices_train, remove_indices_valid,
                   generator_train, epoch, hist_train>>

EpochEnd(r) ==
    /\ pc[r] = "fit_valid"
    /\ step[r] >= BatchCount(generator_valid[r])
    /\ generator_train' =
           [generator_train EXCEPT ![r] = OnEpochEnd(generator_train[r])]
    /\ generator_valid' =
           [generator_valid EXCEPT ![r] = OnEpochEnd(generator_valid[r])]
    /\ epoch' = [epoch EXCEPT ![r] = @ + 1]
    /\ step' = [step EXCEPT ![r] = 0]
    /\ pc' = [pc EXCEPT ![r] =
                 IF epoch[r] + 1 >= args[r].epochs THEN "save" ELSE "fit_train"]
    /\ UNCHANGED <<fsys, runs, args, err, x_train, x_valid, y_train, y_valid,
                   remove_indices_train, remove_indices_valid, hist_train,
                   hist_valid>>

\* Lines 393-397: the training time and the trained model are written.
SaveModel(r) ==
    /\ pc[r] = "save"
    /\ pc' = [pc EXCEPT ![r] = "done"]
    /\ UNCHANGED <<fsys, runs, args, err, x_train, x_valid, y_train, y_valid,
                   remove_indices_train, remove_indices_valid,
                   generator_train, generator_valid, epoch, step, hist_train,
                   hist_valid>>

Next ==
    \/ \E r \in runs : Parsing(r)
    \/ \E r \in runs : BuildModel(r)
    \/ \E r \in runs : LoadData(r)
    \/ \E r \in runs : RemapRemoveIndices(r)
    \/ \E r \in runs : BuildTrain(r)
    \/ \E r \in runs : BuildValid(r)
    \/ \E r \in runs : FetchTrain(r)
    \/ \E r \in runs : StartValidation(r)
    \/ \E r \in runs : FetchValid(r)
    \/ \E r \in runs : EpochEnd(r)
    \/ \E r \in runs : SaveModel(r)

(***************************************************************************)
(* The inputs: archives on disk and command lines.                         *)
(***************************************************************************)
\* A one-hot chromosome of n bases; with_n makes its first base undefined.
GenomeArray(n, with_n) ==
    [i \in 1..n |-> IF with_n /\ i = 1 THEN BaseN ELSE (i - 1) % 4]

\* A label array of n values.
LabelArray(n, kind) ==
    [i \in 1..n |-> CASE kind = "zeros" -> 0
                      [] kind = "mixed" -> i % 2
                      [] OTHER -> i]

\* Local exclusion indices for a chromosome of n labels.
IndexArray(n, kind) ==
    CASE kind = "first" -> <<0>>
      [] kind = "last" -> <<n - 1>>
      [] kind = "both" -> <<0, n - 1>>
      [] kind = "beyond" -> <<n>>
      [] OTHER -> << >>

IndexKinds == {"empty", "first", "last", "both", "beyond"}

File(arrays) == [exists |-> TRUE, arrays |-> arrays]

DefaultArgs ==
    [architecture |-> "mnase_Etienne", genome |-> "genome.npz",
     chrom_train |-> <<"1">>, chrom_valid |-> <<"2">>, strand |-> "for",
     winsize |-> 1, head_interval |-> NoHeads, epochs |-> 1,
     batch_size |-> 2, same_samples |-> FALSE, max_train |-> 2 * MaxLen + 1,
     max_valid |-> 2 * MaxLen + 1, balance |-> "None",
     n_classes |-> DefaultClasses, remove0s |-> FALSE,
     removeNs |-> FALSE, remove_indices |-> FALSE, seed |-> 0]

\* The state before run 1 (and run 2 when two runs are compared) starts.
Start(fs, started, a) ==
    /\ fsys = fs
    /\ runs = started
    /\ args = a
    /\ pc = [r \in Runs |-> "start"]
    /\ err = [r \in Runs |-> ""]
    /\ x_train = [r \in Runs |-> << >>]
    /\ x_valid = [r \in Runs |-> << >>]
    /\ y_train = [r \in Runs |-> << >>]
    /\ y_valid = [r \in Runs |-> << >>]
    /\ remove_indices_train = [r \in Runs |-> NoRemoveIndices]
    /\ remove_indices_valid = [r \in Runs |-> NoRemoveIndices]
    /\ generator_train = [r \in Runs |-> NoGenerator]
    /\ generator_valid = [r \in Runs |-> NoGenerator]
    /\ epoch = [r \in Runs |-> 0]
    /\ step = [r \in Runs |-> 0]
    /\ hist_train = [r \in Runs |-> << >>]
    /\ hist_valid = [r \in Runs |-> << >>]

\* The chromosome names of an archive made for the genome file `path`.
ArchiveKeys(path) ==
    Range(RenameChroms(Stem(path), <<"1", "2", "Mmmyco">>))

KeyChoices(path) ==
    {ArchiveKeys(path), ArchiveKeys(path) \ {"Mmmyco"},
     ArchiveKeys(path) \ Range(RenameChroms(Stem(path), <<"2">>))}

\* Command lines and archives that may be misconfigured: files that do not
\* exist, archives without a requested chromosome, an unknown architecture.
InitConfig ==
    \E path \in {"genome.npz", "W303.npz", "W303_Mmmyco.npz"},
       ct \in {<<"1">>, <<"1", "2">>}, cv \in {<<"2">>, <<"Mmmyco">>},
       gex \in BOOLEAN, lex \in BOOLEAN,
       rem \in {"none", "missing", "given"},
       arch \in {"mnase_Etienne", "other"} :
    \E gk \in KeyChoices(path), lk \in KeyChoices(path),
       rk \in KeyChoices(path) :
        Start([genome |-> IF gex THEN File([k \in gk |-> GenomeArray(2, FALSE)])
                          ELSE NoFile,
               labels |-> IF lex THEN File([k \in lk |-> LabelArray(2, "ones")])
                          ELSE NoFile,
               remove |-> IF rem = "given"
                          THEN File([k \in rk |-> IndexArray(2, "first")])
                          ELSE NoFile],
              {1},
              [r \in Runs |->
                  [DefaultArgs EXCEPT !.genome = path, !.chrom_train = ct,
                                      !.chrom_valid = cv,
                                      !.architecture = arch,
                                      !.remove_indices = (rem # "none")]])

\* Well-formed archives of chromosomes "1" and "2" with every combination
\* of sequence and label lengths, equal or not.
InitLengths ==
    \E g1 \in 1..MaxLen, g2 \in 1..MaxLen, d1 \in {-1, 0, 1},
       d2 \in {-1, 0, 1},
       ct \in {<<"1">>, <<"1", "2">>, <<"2", "1">>, <<"2", "1", "2">>},
       w \in {1, 3, 5}, kind \in IndexKinds \cup {"none"} :
        /\ g1 + d1 >= 1
        /\ g2 + d2 >= 1
        /\ Start([genome |-> File([k \in {"1", "2"} |->
                       GenomeArray(IF k = "1" THEN g1 ELSE g2, FALSE)]),
                  labels |-> File([k \in {"1", "2"} |->
                       LabelArray(IF k = "1" THEN g1 + d1 ELSE g2 + d2,
                                  "ones")]),
                  remove |-> File([k \in {"1", "2"} |->
                       IndexArray(IF k = "1" THEN g1 + d1 ELSE g2 + d2,
                                  kind)])],
                 {1},
                 [r \in Runs |->
                     [DefaultArgs EXCEPT !.chrom_train = ct, !.winsize = w,
                                         !.batch_size = MaxBatch,
                                         !.remove_indices = (kind # "none")]])

Init == InitConfig \/ InitLengths

\* Well-formed archives and command lines that differ in what the sampler
\* reads: the eligible positions, batch_size, max_train, same_samples, seed.
\* Chromosome "1" has MaxLen bases and chromosome "2" one less.
InitSampling ==
    \E ct \in {<<"1">>, <<"1", "2">>, <<"2", "1", "2">>},
       lab \in {<<"ones", FALSE>>, <<"mixed", TRUE>>, <<"zeros", TRUE>>},
       b \in 1..MaxBatch, mt \in {1, 2, 3, 3 * MaxLen},
       ss \in BOOLEAN, sd \in {NoSeed, 0} :
        Start([genome |-> File([k \in {"1", "2"} |->
                   GenomeArray(IF k = "1" THEN MaxLen ELSE MaxLen - 1, FALSE)]),
               labels |-> File([k \in {"1", "2"} |->
                   LabelArray(IF k = "1" THEN MaxLen ELSE MaxLen - 1, lab[1])]),
               remove |-> NoFile],
              {1},
              [r \in Runs |->
                  [DefaultArgs EXCEPT !.chrom_train = ct, !.batch_size = b,
                                      !.max_train = mt, !.max_valid = 2,
                                      !.same_samples = ss, !.seed = sd,
                                      !.remove0s = lab[2],
                                      !.epochs = MaxEpochs]])

SpecSampling == InitSampling /\ [][Next]_vars

\* Two runs on the same archives whose command lines differ at most in the
\* training seed and the same_samples flag.
InitPair ==
    \E sd1 \in {NoSeed, 0, 1}, sd2 \in {NoSeed, 0, 1},
       ss1 \in BOOLEAN, ss2 \in BOOLEAN,
       st \in {"for", "rev", "both"}, w \in {1, 3} :
        Start([genome |-> File([k \in {"1", "2"} |-> GenomeArray(MaxLen, TRUE)]),
               labels |-> File([k \in {"1", "2"} |->
                                  LabelArray(MaxLen, "ones")]),
               remove |-> NoFile],
              {1, 2},
              [r \in Runs |->
                  [DefaultArgs EXCEPT !.strand = st, !.winsize = w,
                                      !.max_valid = 3,
                                      !.seed = IF r = 1 THEN sd1 ELSE sd2,
                                      !.same_samples =
                                          IF r = 1 THEN ss1 ELSE ss2]])

SpecPair == InitPair /\ [][Next]_vars

Spec == Init /\ [][Next]_vars

(***************************************************************************)
(* Properties of the driver.                                               *)
(***************************************************************************)
\* The chromosome identifiers run r asks for, as the archives name them.
Requested(r) ==
    IF pc[r] = "start"
    THEN RenameChroms(Stem(args[r].genome),
                      args[r].chrom_train \o args[r].chrom_valid)
    ELSE args[r].chrom_train \o args[r].chrom_valid

Misconfigured(r) ==
    \/ ~fsys.genome.exists
    \/ ~fsys.labels.exists
    \/ \E i \in 1..Len(Requested(r)) :
          \/ Requested(r)[i] \notin Keys(fsys.genome)
          \/ Requested(r)[i] \notin Keys(fsys.labels)
          \/ args[r].remove_indices /\ Requested(r)[i] \notin Keys(fsys.remove)

ParsingErrors ==
    {"genome does not exist", "labels does not exist", "ValueError",
     "not a valid chromosome id in genome and labels", "FileNotFoundError",
     "not a valid chromosome id in remove_indices"}

NothingLoaded(r) ==
    /\ x_train[r] = << >> /\ x_valid[r] = << >>
    /\ y_train[r] = << >> /\ y_valid[r] = << >>
    /\ ~remove_indices_train[r].given /\ ~remove_indices_valid[r].given
    /\ ~generator_train[r].built /\ ~generator_valid[r].built
    /\ hist_train[r] = << >> /\ hist_valid[r] = << >>

\* C6: a run whose genome or labels file does not exist, or one of whose
\* requested chromosomes is missing from the genome, the labels or the given
\* exclusion archive, never gets past parsing(): it ends there with an
\* error, with no array merged, no generator built and no batch fetched.
C6_MisconfigurationStopsInParsing ==
    \A r \in runs :
        Misconfigured(r) =>
            /\ pc[r] \in {"start", "exit"}
            /\ pc[r] = "exit" => err[r] \in ParsingErrors
            /\ NothingLoaded(r)

C6_Witness ==
    \E r \in runs :
        /\ Misconfigured(r)
        /\ \A i \in 1..Len(Requested(r)) :
              /\ Requested(r)[i] \in Keys(fsys.genome)
              /\ Requested(r)[i] \in Keys(fsys.labels)
        /\ pc[r] = "exit"
        /\ err[r] = "not a valid chromosome id in remove_indices"

\* The label arrays of a chromosome list, in the order listed.
LabelArrays(chroms) == [i \in 1..Len(chroms) |-> fsys.labels.arrays[chroms[i]]]

IndexArrays(chroms) == [i \in 1..Len(chroms) |-> fsys.remove.arrays[chroms[i]]]

\* offset_i: the lengths of chromosomes 1..i-1 plus one slot for each.
Offset(arrays, i) == SumLen(SubSeq(arrays, 1, i - 1)) + (i - 1)

\* The remapped indices that came from chromosome i of the list.
Segment(idx, chroms, i) ==
    LET before == SumLen(SubSeq(IndexArrays(chroms), 1, i - 1))
    IN  SubSeq(idx, before + 1, before + Len(IndexArrays(chroms)[i]))

\* offset_i is where chromosome i starts in the merged array y.
StartsAt(y, arrays, i) ==
    /\ \A j \in 0..(Len(arrays[i]) - 1) :
          At(y, Offset(arrays, i) + j) = At(arrays[i], j)
    /\ i > 1 => At(y, Offset(arrays, i) - 1) = Gap

RemappedAsClaimed(ri, y, chroms) ==
    /\ Len(ri.idx) = SumLen(IndexArrays(chroms))
    /\ \A i \in 1..Len(chroms) :
          /\ StartsAt(y, LabelArrays(chroms), i)
          /\ \A m \in 1..Len(IndexArrays(chroms)[i]) :
                Segment(ri.idx, chroms, i)[m] =
                    IndexArrays(chroms)[i][m] + Offset(LabelArrays(chroms), i)

Remapped(r) ==
    /\ pc[r] \in {"remapped", "train_built", "fit_train", "fit_valid",
                   "save", "done"}
    /\ args[r].remove_indices

\* C3: local exclusion index j of the i-th listed chromosome is remapped to
\* j + offset_i, offset_i being the label lengths of the chromosomes before
\* it plus one slot each, which is where base j of that chromosome lies in
\* the merged label array; for the training and the validation list.
C3_RemapUsesCumulativeOffsets ==
    \A r \in runs :
        Remapped(r) =>
            /\ RemappedAsClaimed(remove_indices_train[r], y_train[r],
                                 args[r].chrom_train)
            /\ RemappedAsClaimed(remove_indices_valid[r], y_valid[r],
                                 args[r].chrom_valid)

C3_Witness ==
    \E r \in runs :
        /\ Remapped(r)
        /\ Len(args[r].chrom_train) = 3
        /\ Len(remove_indices_train[r].idx) = 6
        /\ remove_indices_train[r].idx[6] > 6

LocalIndicesInRange(chroms) ==
    \A i \in 1..Len(chroms) :
        \A m \in 1..Len(IndexArrays(chroms)[i]) :
            IndexArrays(chroms)[i][m] \in 0..(Len(LabelArrays(chroms)[i]) - 1)

RemapInjective(ri, y, chroms) ==
    LET L == LabelArrays(chroms)
    IN  /\ \A i \in 1..Len(chroms) :
              \A m \in 1..Len(Segment(ri.idx, chroms, i)) :
                  LET v == Segment(ri.idx, chroms, i)[m]
                  IN  /\ v >= Offset(L, i)
                      /\ v < Offset(L, i) + Len(L[i])
                      /\ v <= Len(y) - 1
                      /\ v \notin GapPositions(y)
                      /\ \A k \in 1..Len(chroms) :
                            v # Offset(L, k) + Len(L[k])
        /\ \A i, k \in 1..Len(chroms) :
              i # k => Range(Segment(ri.idx, chroms, i))
                           \cap Range(Segment(ri.idx, chroms, k)) = {}

\* C10: when every local exclusion index lies in [0, length of its
\* chromosome's label array), the remapped indices of chromosome i lie in
\* [offset_i, offset_i + length_i), the indices of different chromosomes
\* never coincide, none is a separator position and none lies beyond the
\* last index of the merged label array.
C10_RemapInjectiveAndOffGaps ==
    \A r \in runs :
        Remapped(r) =>
            /\ LocalIndicesInRange(args[r].chrom_train) =>
                   RemapInjective(remove_indices_train[r], y_train[r],
                                  args[r].chrom_train)
            /\ LocalIndicesInRange(args[r].chrom_valid) =>
                   RemapInjective(remove_indices_valid[r], y_valid[r],
                                  args[r].chrom_valid)

C10_Witness ==
    \E r \in runs :
        /\ Remapped(r)
        /\ LocalIndicesInRange(args[r].chrom_train)
        /\ Len(args[r].chrom_train) = 3
        /\ Len(remove_indices_train[r].idx) = 6
        /\ Len(y_train[r]) - 1 \in Range(remove_indices_train[r].idx)

\* Some requested chromosome has label and sequence arrays of different
\* lengths.
LengthMismatch(r) ==
    /\ ~Misconfigured(r)
    /\ \E i \in 1..Len(Requested(r)) :
          Len(fsys.genome.arrays[Requested(r)[i]])
              # Len(fsys.labels.arrays[Requested(r)[i]])

\* C8: a run with a chromosome whose label array and sequence array differ
\* in length fails before it remaps exclusion indices, builds a generator or
\* produces a batch.
C8_LengthMismatchFailsEarly ==
    \A r \in runs :
        LengthMismatch(r) =>
            /\ ~remove_indices_train[r].given
            /\ ~remove_indices_valid[r].given
            /\ ~generator_train[r].built /\ ~generator_valid[r].built
            /\ hist_train[r] = << >> /\ hist_valid[r] = << >>

\* The sequence arrays of a chromosome list, in the order listed.
SequenceArrays(chroms) ==
    [i \in 1..Len(chroms) |-> fsys.genome.arrays[chroms[i]]]

\* The separator positions of the merged array of `arrays`.
Separators(arrays) ==
    {Offset(arrays, i) + Len(arrays[i]) : i \in 1..(Len(arrays) - 1)}

MergedLen(arrays) == SumLen(arrays) + Len(arrays) - 1

Distance(p, q) == IF p >= q THEN p - q ELSE q - p

\* The window of length w centered on p keeps clear of the ends and the
\* separators of the merged array and lies inside one chromosome.
WindowInsideChromosome(p, w, arrays) ==
    /\ Distance(p, 0) >= w \div 2
    /\ Distance(p, MergedLen(arrays) - 1) >= w \div 2
    /\ \A g \in Separators(arrays) : Distance(p, g) >= w \div 2
    /\ WindowRange(p, w) \cap Separators(arrays) = {}
    /\ \E i \in 1..Len(arrays) :
          WindowRange(p, w) \subseteq
              Offset(arrays, i)..(Offset(arrays, i) + Len(arrays[i]) - 1)

\* C2: every eligible position of the training and of the validation
\* generator is at least winsize // 2 away from the start, the end and every
\* separator of the merged array, and its window of winsize elements lies
\* inside a single chromosome and holds no separator.
C2_WindowsStayInsideChromosomes ==
    \A r \in runs :
        /\ generator_train[r].built =>
              \A p \in Range(generator_train[r].eligible) :
                  WindowInsideChromosome(p, args[r].winsize,
                                         SequenceArrays(args[r].chrom_train))
        /\ generator_valid[r].built =>
              \A p \in Range(generator_valid[r].eligible) :
                  WindowInsideChromosome(p, args[r].winsize,
                                         SequenceArrays(args[r].chrom_valid))

C2_Witness ==
    \E r \in runs :
        /\ generator_train[r].built
        /\ args[r].winsize = 3
        /\ Len(args[r].chrom_train) = 3
        /\ Len(generator_train[r].eligible) >= 3
        /\ \E g \in GapPositions(x_train[r]) :
              /\ g - 2 \in Range(generator_train[r].eligible)
              /\ g + 2 \in Range(generator_train[r].eligible)

(***************************************************************************)
(* Properties of the sampler.                                              *)
(***************************************************************************)
\* Every position the batches of h hold, in the order drawn.
RECURSIVE Drawn(_)
Drawn(h) == IF h = << >> THEN << >> ELSE Head(h).pos \o Drawn(Tail(h))

NoRepeat(seq) == \A i, j \in 1..Len(seq) : i # j => seq[i] # seq[j]

\* The k-th coverage cycle of a draw sequence over n positions.
Cycle(seq, n, k) == SubSeq(seq, (k - 1) * n + 1, Min(k * n, Len(seq)))

\* Cycle after cycle, the draws repeat no position within a cycle and a
\* complete cycle holds every position of S.
CoversInCycles(seq, S) ==
    LET n == Cardinality(S)
    IN  \A k \in 1..(IF n = 0 THEN 0 ELSE CeilDiv(Len(seq), n)) :
            /\ NoRepeat(Cycle(seq, n, k))
            /\ Range(Cycle(seq, n, k)) \subseteq S
            /\ Len(Cycle(seq, n, k)) = n => Range(Cycle(seq, n, k)) = S

TrainBuilt(r) ==
    pc[r] \in {"train_built", "fit_train", "fit_valid", "save", "done"}

\* The eligible positions of the training data, from the archives.
TrainEligible(r) ==
    {p \in 0..(Len(x_train[r]) - 1) :
        /\ WindowInsideChromosome(p, args[r].winsize,
                                  SequenceArrays(args[r].chrom_train))
        /\ ~(args[r].remove0s /\ At(y_train[r], p) = 0)
        /\ ~(args[r].removeNs /\ At(x_train[r], p) = BaseN)
        /\ ~(args[r].remove_indices
               /\ p \in Range(remove_indices_train[r].idx))}

\* Batch sizes of an epoch of n positions: batch_size, then what is left.
SizesAsClaimed(h, n, b) ==
    \A m \in 1..Len(h) :
        /\ h[m].idx \in 0..(CeilDiv(n, b) - 1)
        /\ Len(h[m].pos) = IF h[m].idx < n \div b THEN b ELSE n % b
        /\ m > 1 => h[m].idx = (h[m - 1].idx + 1) % CeilDiv(n, b)

\* C1: with same_samples=False, no balancing and max_train at least the
\* number N of eligible positions, the batches of the training generator,
\* taken N positions at a time from its construction on, hold every eligible
\* position exactly once, and every batch has batch_size positions except a
\* last one of N mod batch_size.
C1_CycleCoversEligibleOnce ==
    \A r \in runs :
        (/\ TrainBuilt(r)
         /\ ~args[r].same_samples
         /\ args[r].balance = "None"
         /\ args[r].max_train >= Cardinality(TrainEligible(r))) =>
            /\ CoversInCycles(Drawn(hist_train[r]), TrainEligible(r))
            /\ SizesAsClaimed(hist_train[r], Cardinality(TrainEligible(r)),
                              args[r].batch_size)
            /\ (pc[r] = "done" /\ TrainEligible(r) # {}) =>
                   Len(Drawn(hist_train[r])) =
                       args[r].epochs * Cardinality(TrainEligible(r))

C1_Witness ==
    \E r \in runs :
        /\ pc[r] = "fit_valid"
        /\ epoch[r] = 0
        /\ ~args[r].same_samples
        /\ args[r].batch_size = 3
        /\ Cardinality(TrainEligible(r)) = 10
        /\ args[r].max_train >= 10
        /\ [m \in 1..Len(hist_train[r]) |-> Len(hist_train[r][m].pos)]
               = <<3, 3, 3, 1>>

\* The positions drawn since the last completed coverage cycle.
CurrentCycle(seq, n) == SubSeq(seq, (Len(seq) \div n) * n + 1, Len(seq))

CountAsClaimed(max_data, n, b) == CeilDiv(Min(max_data, n), b)

CountHolds(r) ==
    /\ generator_train[r].built =>
          BatchCount(generator_train[r]) =
              CountAsClaimed(args[r].max_train,
                             Len(generator_train[r].eligible),
                             args[r].batch_size)
    /\ generator_valid[r].built =>
          BatchCount(generator_valid[r]) =
              CountAsClaimed(args[r].max_valid,
                             Len(generator_valid[r].eligible),
                             args[r].batch_size)

\* C4: the batch count a generator reports is
\* ceil(min(max_data, |eligible|) / batch_size), and a step that neither
\* constructs the generator nor ends an epoch leaves the count as it was.
C4_BatchCountFixedWithinEpoch ==
    [][\A r \in runs :
          /\ CountHolds(r)'
          /\ (generator_train[r].built /\ epoch'[r] = epoch[r]) =>
                BatchCount(generator_train'[r])
                    = BatchCount(generator_train[r])
          /\ (generator_valid[r].built /\ epoch'[r] = epoch[r]) =>
                BatchCount(generator_valid'[r])
                    = BatchCount(generator_valid[r])]_vars

C4_Witness ==
    \E r \in runs :
        /\ pc[r] = "fit_train"
        /\ epoch[r] = 1
        /\ step[r] = 2
        /\ ~args[r].same_samples
        /\ args[r].max_train = 3
        /\ args[r].batch_size = 2
        /\ Len(generator_train[r].eligible) = 7
        /\ BatchCount(generator_train[r]) = 2

AllLabelsZero(r) ==
    \A i \in 1..Len(args[r].chrom_train) :
        \A j \in 1..Len(LabelArrays(args[r].chrom_train)[i]) :
            LabelArrays(args[r].chrom_train)[i][j] = 0

\* C7: when every label of the training chromosomes is zero and remove0s is
\* set, the training generator is built without an error, its eligible set
\* is empty, it reports zero batches and no batch is ever fetched from it.
C7_AllZeroLabelsGiveNoBatches ==
    \A r \in runs :
        (/\ ~Misconfigured(r)
         /\ ~LengthMismatch(r)
         /\ args[r].architecture \in model_dict
         /\ AllLabelsZero(r)
         /\ args[r].remove0s) =>
            /\ err[r] = "" /\ pc[r] # "exit"
            /\ TrainBuilt(r) =>
                  /\ generator_train[r].built
                  /\ generator_train[r].eligible = << >>
                  /\ BatchCount(generator_train[r]) = 0
                  /\ hist_train[r] = << >>

C7_Witness ==
    \E r \in runs :
        /\ AllLabelsZero(r)
        /\ args[r].remove0s
        /\ pc[r] = "done"
        /\ BatchCount(generator_train[r]) = 0
        /\ Len(x_train[r]) > 1

(***************************************************************************)
(* Properties of two runs.                                                 *)
(***************************************************************************)
\* The batches both histories hold are the same: positions, strands, window
\* tensors and label tensors.
SameBatches(h1, h2) ==
    \A k \in 1..Min(Len(h1), Len(h2)) : h1[k] = h2[k]

\* C5: in two runs on the same data and parameters, the validation
\* generator is built with same_samples=True and seed 0 and returns the same
\* batches in both, whatever the training seeds and same_samples flags; and
\* with the same fixed training seed and flag the training generators return
\* the same batches too, batch 0 included.
C5_FixedSeedReproducesBatches ==
    /\ \A r \in runs :
          generator_valid[r].built =>
              /\ generator_valid[r].same_samples
              /\ generator_valid[r].seed = ValidSeed
    /\ SameBatches(hist_valid[1], hist_valid[2])
    /\ (/\ args[1].seed = args[2].seed
        /\ args[1].seed # NoSeed
        /\ args[1].same_samples = args[2].same_samples) =>
           SameBatches(hist_train[1], hist_train[2])

C5_Witness ==
    /\ pc[1] = "done" /\ pc[2] = "done"
    /\ args[1].seed = 0 /\ args[2].seed = 1
    /\ args[1].strand = "both"
    /\ ~args[1].same_samples /\ ~args[2].same_samples
    /\ hist_train[1][1].pos # hist_train[2][1].pos
    /\ Len(hist_valid[1]) = 2
    /\ hist_valid[1] = hist_valid[2]

====
